---------------------------- MODULE Spec2Model ----------------------------
(***************************************************************************)
(* Model of the image conversion core, src/services/imageService.ts:       *)
(* processImage (decode, with the Image-element fallback) and              *)
(* renderToCanvas (target dimensions, background, fit-mode placement,      *)
(* drawImage, toBlob, filename).                                           *)
(*                                                                         *)
(* JavaScript numbers.  The dimensions are integers.  The quotients the    *)
(* placement computes (srcW / srcH, targetWidth / srcRatio, ...) are kept  *)
(* as exact fractions [n, d] in lowest terms; d = 0 encodes the IEEE       *)
(* special values a division by zero produces (n = 1: Infinity, n = -1:    *)
(* -Infinity, n = 0: NaN).  The rounding of a double (at most one unit in  *)
(* the last place per operation) is not modelled: an equality of two       *)
(* placement values below is the equality of the exact values, which is    *)
(* what the specification calls equality "within floating tolerance".      *)
(*                                                                         *)
(* Strings the code takes apart (file names, preset labels) are sequences  *)
(* of one-character strings; strings it only compares are TLA+ strings.    *)
(* An optional value (undefined, null) is the empty sequence, a present    *)
(* value v is <<v>>.                                                       *)
(***************************************************************************)
EXTENDS Integers, Sequences, FiniteSets, TLC

VARIABLES
    pc,        \* where the processImage invocation stands
    file,      \* sourceFile: its name and the natural size its decoding has
    settings,  \* the ProcessingSettings record of the invocation
    ops,       \* calls made on the canvas context and the canvas, in order
    urls,      \* URL.createObjectURL calls of the invocation, in order
    result,    \* <<ProcessedImage>> once the promise resolved, else <<>>
    error      \* <<message>> once the promise rejected, else <<>>

vars == <<pc, file, settings, ops, urls, result, error>>

\* The App component (src/App.tsx) and the page's object URLs
VARIABLES
    appFile,       \* useState file: <<>> or <<the selected File>>
    previewUrl,    \* useState previewUrl: <<>> or <<id of an object URL>>
    appSettings,   \* useState settings
    isProcessing,  \* useState isProcessing
    appResult,     \* useState result: <<>> or <<ProcessedImage>>
    resultSource,  \* history: <<the file appResult was produced from>>
    live,          \* the object URLs made and not revoked: [id, kind]
    nextUrl,       \* the number of object URLs made so far
    mounted        \* the component is mounted

appVars ==
    <<appFile, previewUrl, appSettings, isProcessing, appResult, resultSource,
      live, nextUrl, mounted>>

allVars == <<vars, appVars>>

---------------------------------------------------------------------------
(* Bounds of the model                                                     *)

\* source images have natural width and height in 0 .. MaxSrc
MaxSrc == 2
\* settings.width and settings.height range over 0 .. MaxCustom (and the
\* values of the specification's examples)
MaxCustom == 1
\* the App model makes at most MaxUrls object URLs
MaxUrls == 5

---------------------------------------------------------------------------
(* JavaScript number arithmetic on exact fractions                         *)

Abs(i) == IF i < 0 THEN -i ELSE i

Sgn(i) == IF i < 0 THEN -1 ELSE IF i = 0 THEN 0 ELSE 1

RECURSIVE Gcd(_, _)
Gcd(a, b) == IF b = 0 THEN a ELSE Gcd(b, a % b)

NaN == [n |-> 0, d |-> 0]

Inf(s) == [n |-> s, d |-> 0]

\* the fraction n / d, d > 0, in lowest terms
Frac(n, d) ==
    LET g == Gcd(Abs(n), d)
    IN  [n |-> n \div g, d |-> d \div g]

Num(i) == [n |-> i, d |-> 1]

IsNaN(a) == a.d = 0 /\ a.n = 0

IsFinite(a) == a.d > 0

\* a / b
Div(a, b) ==
    IF IsNaN(a) \/ IsNaN(b) THEN NaN
    ELSE IF ~IsFinite(a) THEN (IF IsFinite(b) THEN Inf(a.n * (IF b.n < 0 THEN -1 ELSE 1)) ELSE NaN)
    ELSE IF ~IsFinite(b) THEN Num(0)
    ELSE IF b.n = 0 THEN (IF a.n = 0 THEN NaN ELSE Inf(Sgn(a.n)))
    ELSE Frac(a.n * b.d * Sgn(b.n), a.d * Abs(b.n))

\* a * b
Mul(a, b) ==
    IF IsNaN(a) \/ IsNaN(b) THEN NaN
    ELSE IF ~IsFinite(a) \/ ~IsFinite(b)
         THEN (IF a.n = 0 \/ b.n = 0 THEN NaN ELSE Inf(Sgn(a.n) * Sgn(b.n)))
    ELSE Frac(a.n * b.n, a.d * b.d)

\* a - b
Sub(a, b) ==
    IF IsNaN(a) \/ IsNaN(b) THEN NaN
    ELSE IF ~IsFinite(a) THEN (IF ~IsFinite(b) /\ a.n = b.n THEN NaN ELSE a)
    ELSE IF ~IsFinite(b) THEN Inf(-b.n)
    ELSE Frac(a.n * b.d - b.n * a.d, a.d * b.d)

\* a > b (false when either is NaN)
Gt(a, b) ==
    IF IsNaN(a) \/ IsNaN(b) THEN FALSE
    ELSE IF ~IsFinite(a) THEN a.n = 1 /\ ~(~IsFinite(b) /\ b.n = 1)
    ELSE IF ~IsFinite(b) THEN b.n = -1
    ELSE a.n * b.d > b.n * a.d

\* a <= b (false when either is NaN)
Le(a, b) == ~IsNaN(a) /\ ~IsNaN(b) /\ ~Gt(a, b)

---------------------------------------------------------------------------
(* types.ts: the enumerations and the preset catalog                       *)

UHD_4K == "4K UHD"
QHD_2K == "2K QHD"
FHD_1080 == "1080p FHD"
HD_720 == "720p HD"
CUSTOM == "Custom"

ResolutionPreset == {UHD_4K, QHD_2K, FHD_1080, HD_720, CUSTOM}

PNG == "image/png"
JPEG == "image/jpeg"
WEBP == "image/webp"

OutputFormat == {PNG, JPEG, WEBP}

CONTAIN == "Contain (Fit)"
COVER == "Cover (Fill)"
STRETCH == "Stretch"

FitMode == {CONTAIN, COVER, STRETCH}

RESOLUTIONS(preset) ==
    CASE preset = UHD_4K   -> [width |-> 3840, height |-> 2160]
      [] preset = QHD_2K   -> [width |-> 2560, height |-> 1440]
      [] preset = FHD_1080 -> [width |-> 1920, height |-> 1080]
      [] preset = HD_720   -> [width |-> 1280, height |-> 720]
      [] preset = CUSTOM   -> [width |-> 0, height |-> 0]

\* the characters of a preset's label, which the filename takes apart
PresetLabel(preset) ==
    CASE preset = UHD_4K   -> <<"4", "K", " ", "U", "H", "D">>
      [] preset = QHD_2K   -> <<"2", "K", " ", "Q", "H", "D">>
      [] preset = FHD_1080 -> <<"1", "0", "8", "0", "p", " ", "F", "H", "D">>
      [] preset = HD_720   -> <<"7", "2", "0", "p", " ", "H", "D">>
      [] preset = CUSTOM   -> <<"C", "u", "s", "t", "o", "m">>


---------------------------------------------------------------------------
(* renderToCanvas, step 2: target dimensions                               *)

\* mutation of ResolveWidth: the preset does not override the width field
ResolveWidth_FieldWins(s) == s.width

\* lines 45-52: the settings' width, or the preset's when one is chosen
ResolveWidth(s) ==
    IF s.preset # CUSTOM THEN RESOLUTIONS(s.preset).width ELSE s.width

ResolveHeight(s) ==
    IF s.preset # CUSTOM THEN RESOLUTIONS(s.preset).height ELSE s.height

\* lines 55-56, the "safety check": a zero or negative value is replaced by
\* the source's own size, or by 1920 (1080) when that is zero too
SafeWidth(w, srcW) ==
    IF w = 0 \/ w <= 0 THEN (IF srcW # 0 THEN srcW ELSE 1920) ELSE w

SafeHeight(h, srcH) ==
    IF h = 0 \/ h <= 0 THEN (IF srcH # 0 THEN srcH ELSE 1080) ELSE h

TargetWidth(s, src) == SafeWidth(ResolveWidth(s), src.width)

TargetHeight(s, src) == SafeHeight(ResolveHeight(s), src.height)

---------------------------------------------------------------------------
(* renderToCanvas, step 5: background                                      *)

\* lines 74-78: ctx.fillStyle
FillStyle(s) ==
    IF s.format = JPEG /\ s.backgroundColor = "transparent"
    THEN "#000000"
    ELSE s.backgroundColor

\* lines 81-85: the one call that prepares the frame
BackgroundOp(s, tw, th) ==
    IF s.backgroundColor # "transparent"
    THEN [op |-> "fillRect", fillStyle |-> FillStyle(s),
          x |-> 0, y |-> 0, w |-> tw, h |-> th]
    ELSE [op |-> "clearRect", fillStyle |-> FillStyle(s),
          x |-> 0, y |-> 0, w |-> tw, h |-> th]

---------------------------------------------------------------------------
(* renderToCanvas, step 6: draw position                                   *)

\* lines 95-96: the two ratios
SrcRatio(srcW, srcH) == Div(Num(srcW), Num(srcH))

DstRatio(tw, th) == Div(Num(tw), Num(th))

\* lines 88-91: the initial values, which STRETCH keeps
StretchPlacement(tw, th) ==
    [drawX |-> Num(0), drawY |-> Num(0), drawW |-> Num(tw), drawH |-> Num(th)]

\* mutation of FitWidth: the height multiplied by the ratio, not divided
FitWidth_Multiplied(srcRatio, tw, th) ==
    LET dh == Mul(Num(tw), srcRatio)
    IN  [drawX |-> Num(0), drawY |-> Div(Sub(Num(th), dh), Num(2)),
         drawW |-> Num(tw), drawH |-> dh]

\* lines 101-103 and 118-120: the width is the target's, the height follows
\* the source's ratio and is centred
FitWidth(srcRatio, tw, th) ==
    LET dh == Div(Num(tw), srcRatio)
    IN  [drawX |-> Num(0), drawY |-> Div(Sub(Num(th), dh), Num(2)),
         drawW |-> Num(tw), drawH |-> dh]

\* lines 106-108 and 113-115: the height is the target's, the width follows
\* the source's ratio and is centred
FitHeight(srcRatio, tw, th) ==
    LET dw == Mul(Num(th), srcRatio)
    IN  [drawX |-> Div(Sub(Num(tw), dw), Num(2)), drawY |-> Num(0),
         drawW |-> dw, drawH |-> Num(th)]

\* mutation of ContainPlacement: the two branches exchanged
ContainPlacement_Flipped(srcRatio, dstRatio, tw, th) ==
    IF Gt(srcRatio, dstRatio)
    THEN FitHeight(srcRatio, tw, th)
    ELSE FitWidth(srcRatio, tw, th)

\* lines 98-109
ContainPlacement(srcRatio, dstRatio, tw, th) ==
    IF Gt(srcRatio, dstRatio)
    THEN FitWidth(srcRatio, tw, th)
    ELSE FitHeight(srcRatio, tw, th)

\* mutation of CoverPlacement: the two branches exchanged
CoverPlacement_Flipped(srcRatio, dstRatio, tw, th) ==
    IF Gt(srcRatio, dstRatio)
    THEN FitWidth(srcRatio, tw, th)
    ELSE FitHeight(srcRatio, tw, th)

\* lines 110-122
CoverPlacement(srcRatio, dstRatio, tw, th) ==
    IF Gt(srcRatio, dstRatio)
    THEN FitHeight(srcRatio, tw, th)
    ELSE FitWidth(srcRatio, tw, th)

\* mutation of Placement: the last branch is COVER's, STRETCH has none
Placement_NoStretch(fitMode, srcW, srcH, tw, th) ==
    IF fitMode = CONTAIN
    THEN ContainPlacement(SrcRatio(srcW, srcH), DstRatio(tw, th), tw, th)
    ELSE CoverPlacement(SrcRatio(srcW, srcH), DstRatio(tw, th), tw, th)

\* lines 88-123
Placement(fitMode, srcW, srcH, tw, th) ==
    IF fitMode = CONTAIN
    THEN ContainPlacement(SrcRatio(srcW, srcH), DstRatio(tw, th), tw, th)
    ELSE IF fitMode = COVER
    THEN CoverPlacement(SrcRatio(srcW, srcH), DstRatio(tw, th), tw, th)
    ELSE StretchPlacement(tw, th)

\* line 126: ctx.drawImage(imageSource, drawX, drawY, drawW, drawH)
DrawOp(s, src, tw, th) ==
    LET p == Placement(s.fitMode, src.width, src.height, tw, th)
    IN  [op |-> "drawImage", drawX |-> p.drawX, drawY |-> p.drawY,
         drawW |-> p.drawW, drawH |-> p.drawH]

---------------------------------------------------------------------------
(* renderToCanvas, step 8: export                                          *)

\* mutation of Quality: passed for every format
Quality_Always(s) == <<s.quality>>

\* line 130: the quality handed to the encoder
Quality(s) == IF s.format = PNG THEN <<>> ELSE <<s.quality>>

\* lines 133, 160-161: canvas.toBlob(callback, settings.format, quality)
ToBlobOp(s, tw, th) ==
    [op |-> "toBlob", type |-> s.format, quality |-> Quality(s),
     width |-> tw, height |-> th]

\* lines 59-133: the calls renderToCanvas makes before it awaits the encoder
RenderOps(s, src) ==
    LET tw == TargetWidth(s, src)
        th == TargetHeight(s, src)
    IN  <<BackgroundOp(s, tw, th), DrawOp(s, src, tw, th), ToBlobOp(s, tw, th)>>

---------------------------------------------------------------------------
(* renderToCanvas: the filename                                            *)

\* String.prototype.split('.'): the pieces between the dots
RECURSIVE SplitDots(_, _)
SplitDots(str, piece) ==
    IF str = <<>> THEN <<piece>>
    ELSE IF Head(str) = "." THEN <<piece>> \o SplitDots(Tail(str), <<>>)
    ELSE SplitDots(Tail(str), Append(piece, Head(str)))

\* Array.prototype.join('.')
RECURSIVE JoinDots(_)
JoinDots(parts) ==
    IF parts = <<>> THEN <<>>
    ELSE IF Len(parts) = 1 THEN parts[1]
    ELSE parts[1] \o <<".">> \o JoinDots(Tail(parts))

\* mutation of BaseName: everything from the first dot on is dropped
BaseName_FirstDot(originalFilename) == SplitDots(originalFilename, <<>>)[1]

\* lines 142-144
BaseName(originalFilename) ==
    LET nameParts == SplitDots(originalFilename, <<>>)
        kept == IF Len(nameParts) > 1
                THEN SubSeq(nameParts, 1, Len(nameParts) - 1)
                ELSE nameParts
    IN  JoinDots(kept)

\* lines 146-148
Ext(format) ==
    IF format = WEBP THEN <<"w", "e", "b", "p">>
    ELSE IF format = PNG THEN <<"p", "n", "g">>
    ELSE <<"j", "p", "g">>

Digit(i) == <<"0", "1", "2", "3", "4", "5", "6", "7", "8", "9">>[i + 1]

\* the decimal text a template literal gives an integer
RECURSIVE NumberToString(_)
NumberToString(i) ==
    IF i < 0 THEN <<"-">> \o NumberToString(-i)
    ELSE IF i < 10 THEN <<Digit(i)>>
    ELSE Append(NumberToString(i \div 10), Digit(i % 10))

\* the characters the class \s of a regular expression matches
Whitespace == {" ", "\t", "\n", "\r", "\f"}

\* preset.replace(/\s/g, '')
RemoveWhitespace(str) == SelectSeq(str, LAMBDA c : c \notin Whitespace)

\* line 150
Filename(originalFilename, tw, th, preset, format) ==
    BaseName(originalFilename) \o <<"_">> \o NumberToString(tw) \o <<"x">>
        \o NumberToString(th) \o <<"_">> \o RemoveWhitespace(PresetLabel(preset))
        \o <<".">> \o Ext(format)

---------------------------------------------------------------------------
(* The inputs of an invocation                                             *)

\* file names: with an extension, with several dots, without a dot
FileNames ==
    { <<"p", "h", "o", "t", "o", ".", "p", "n", "g">>,
      <<"a", ".", "b", ".", "c">>,
      <<"i", "m", "g">> }

\* natural sizes: the small ones, and the sizes of the specification's
\* examples (a 2:1 photograph, a 1080p frame)
SourceSizes ==
    ((0 .. MaxSrc) \X (0 .. MaxSrc)) \cup {<<4000, 2000>>, <<1920, 1080>>}

Files ==
    { [name |-> nm, width |-> sz[1], height |-> sz[2]] :
        nm \in FileNames, sz \in SourceSizes }

\* settings.width, settings.height: any integer a caller may pass; the
\* specification's examples -5 and 100 are among them
CustomValues == (0 .. MaxCustom) \cup {-5, 100}

BackgroundColors == {"#000000", "#FFFFFF", "transparent"}

\* settings.quality in hundredths (0.1 and 0.9)
Qualities == {10, 90}

\* ProcessingSettings (keepAspectRatio, which the service never reads, is
\* left out)
Settings ==
    [preset : ResolutionPreset, width : CustomValues, height : CustomValues,
     format : OutputFormat, quality : Qualities, fitMode : FitMode,
     backgroundColor : BackgroundColors]

NoFile == [name |-> <<>>, width |-> 0, height |-> 0]

\* App.tsx DEFAULT_SETTINGS, with the quality in hundredths
DEFAULT_SETTINGS ==
    [preset |-> UHD_4K, width |-> 3840, height |-> 2160, format |-> JPEG,
     quality |-> 90, fitMode |-> CONTAIN, backgroundColor |-> "#000000"]

---------------------------------------------------------------------------
(* processImage and renderToCanvas as a process                            *)

Init ==
    /\ pc = "idle"
    /\ file = NoFile
    /\ settings = DEFAULT_SETTINGS
    /\ ops = <<>>
    /\ urls = <<>>
    /\ result = <<>>
    /\ error = <<>>

\* a caller invokes processImage(sourceFile, settings); line 18 awaits
\* createImageBitmap.  The service keeps no state between invocations, so a
\* behaviour follows one invocation from its call to its settlement.
ProcessImage(f, s) ==
    /\ pc' = "decode"
    /\ file' = f
    /\ settings' = s
    /\ ops' = <<>>
    /\ urls' = <<>>
    /\ result' = <<>>
    /\ error' = <<>>

\* the caller's choice of a file and of settings
Invoke ==
    /\ pc = "idle"
    /\ \E f \in Files, s \in Settings : ProcessImage(f, s)

\* renderToCanvas up to the await of toBlob (lines 44-133); getContext may
\* return null, and then lines 64-66 throw before anything is drawn
RenderToCanvas(ctx) ==
    /\ IF ctx
       THEN /\ ops' = RenderOps(settings, file)
            /\ pc' = "encode"
            /\ error' = error
       ELSE /\ ops' = ops
            /\ pc' = "rejected"
            /\ error' = <<"Could not get canvas context">>
    /\ UNCHANGED <<file, settings, urls, result>>

\* createImageBitmap resolves (it does so only for an image with a positive
\* width and height) and line 36 renders the bitmap
BitmapDecoded ==
    /\ pc = "decode"
    /\ file.width > 0 /\ file.height > 0
    /\ \E ctx \in BOOLEAN : RenderToCanvas(ctx)

\* createImageBitmap rejects: lines 21-32 load the file into an Image
\* element through an object URL of the source file
BitmapFailed ==
    /\ pc = "decode"
    /\ pc' = "imgload"
    /\ urls' = Append(urls, "source")
    /\ UNCHANGED <<file, settings, ops, result, error>>

\* img.onload, lines 23-30
ImgOnload ==
    /\ pc = "imgload"
    /\ \E ctx \in BOOLEAN : RenderToCanvas(ctx)

\* img.onerror = reject, line 31
ImgOnerror ==
    /\ pc = "imgload"
    /\ pc' = "rejected"
    /\ error' = <<"image error event">>
    /\ UNCHANGED <<file, settings, ops, urls, result>>

\* mutation of BlobUrls: the object URL is made before the blob is tested
BlobUrls_Eager(blob, us) == Append(us, "blob")

\* line 139: the object URLs after the callback got `blob`
BlobUrls(blob, us) == IF blob = <<>> THEN us ELSE Append(us, "blob")

\* lines 141-158: the value the promise resolves with
ProcessedImage(blob, us, s, src) ==
    IF blob = <<>> THEN <<>>
    ELSE <<[blob |-> blob[1], url |-> Len(us),
            filename |-> Filename(src.name, TargetWidth(s, src),
                                  TargetHeight(s, src), s.preset, s.format),
            width |-> TargetWidth(s, src), height |-> TargetHeight(s, src)]>>

\* lines 135-137: the rejection of a missing blob
BlobError(blob) == IF blob = <<>> THEN <<"Canvas to Blob failed">> ELSE <<>>

\* what the encoder can call back with for the toBlob call `call`: null, or
\* a blob of the type and quality asked for
EncoderOutputs(call) ==
    { <<>>, <<[type |-> call.type, quality |-> call.quality]>> }

\* the encoder calls back, lines 134-159
ToBlobCallback ==
    /\ pc = "encode"
    /\ \E blob \in EncoderOutputs(ops[Len(ops)]) :
          /\ pc' = IF blob = <<>> THEN "rejected" ELSE "resolved"
          /\ urls' = BlobUrls(blob, urls)
          /\ result' = ProcessedImage(blob, urls', settings, file)
          /\ error' = BlobError(blob)
    /\ UNCHANGED <<file, settings, ops>>

\* the App's state before the first event (lines 23-27), no object URL made
AppInit ==
    /\ appFile = <<>>
    /\ previewUrl = <<>>
    /\ appSettings = DEFAULT_SETTINGS
    /\ isProcessing = FALSE
    /\ appResult = <<>>
    /\ resultSource = <<>>
    /\ live = {}
    /\ nextUrl = 0
    /\ mounted = TRUE

\* the state of the page before anything happened
StartUp == Init /\ AppInit

\* the service called directly, with any file and any settings
Next ==
    \/ Invoke /\ UNCHANGED appVars
    \/ BitmapDecoded /\ UNCHANGED appVars
    \/ BitmapFailed /\ UNCHANGED appVars
    \/ ImgOnload /\ UNCHANGED appVars
    \/ ImgOnerror /\ UNCHANGED appVars
    \/ ToBlobCallback /\ UNCHANGED appVars

Spec == StartUp /\ [][Next]_allVars

---------------------------------------------------------------------------
(* The App component                                                       *)

\* the files a user may pick or drop: two images and a file that is none
AppFiles ==
    { [name |-> <<"p", "h", "o", "t", "o", ".", "p", "n", "g">>,
       width |-> 1920, height |-> 1080, type |-> "image/png"],
      [name |-> <<"i", "m", "g">>,
       width |-> 4000, height |-> 2000, type |-> "image/jpeg"],
      [name |-> <<"a", ".", "b", ".", "c">>,
       width |-> 0, height |-> 0, type |-> "text/plain"] }

\* the File as the service sees it
CoreFile(f) == [name |-> f.name, width |-> f.width, height |-> f.height]

\* line 46: selectedFile.type.startsWith('image/')
IsImage(f) == f.type \in {"image/png", "image/jpeg", "image/webp"}

\* lines 32-35
IsValid(s) ==
    LET isCustom == s.preset = CUSTOM
        widthError == isCustom /\ s.width <= 0
        heightError == isCustom /\ s.height <= 0
    IN  ~widthError /\ ~heightError

\* URL.revokeObjectURL(id)
Revoke(l, id) == { u \in l : u.id # id }

\* URL.revokeObjectURL of an optional value (if (x) URL.revokeObjectURL(x))
RevokeIf(l, optId) == IF optId = <<>> THEN l ELSE Revoke(l, optId[1])

\* a promise of the service has settled and its continuation in
\* handleProcess, a microtask, runs before any event of the user
ContinuationPending == pc \in {"resolved", "rejected"}

\* the events of the user reach a mounted component between tasks
UserEvent == mounted /\ ~ContinuationPending

\* object URLs made, and the two an invocation in flight may still make
UrlsClaimed == nextUrl + (IF pc = "idle" THEN 0 ELSE 2)

\* lines 45-60: handleFile, from the file input or a drop; both are rendered
\* only while no file is selected (line 143)
HandleFile(f) ==
    /\ UserEvent
    /\ appFile = <<>>
    /\ UrlsClaimed < MaxUrls
    /\ IF ~IsImage(f)
       THEN UNCHANGED appVars
       ELSE /\ appFile' = <<f>>
            /\ previewUrl' = <<nextUrl + 1>>
            /\ nextUrl' = nextUrl + 1
            /\ live' = RevokeIf(RevokeIf(live, previewUrl),
                                IF appResult = <<>> THEN <<>> ELSE <<appResult[1].url>>)
                         \cup {[id |-> nextUrl + 1, kind |-> "preview"]}
            /\ appResult' = <<>>
            /\ resultSource' = <<>>
            /\ UNCHANGED <<appSettings, isProcessing, mounted>>
    /\ UNCHANGED vars

\* line 173: the "Remove image" button, rendered while a file is selected
RemoveImage ==
    /\ UserEvent
    /\ appFile # <<>>
    /\ appFile' = <<>>
    /\ UNCHANGED <<previewUrl, appSettings, isProcessing, appResult,
                   resultSource, live, nextUrl, mounted>>
    /\ UNCHANGED vars

\* line 233: the presets the App offers
OfferedPresets == {UHD_4K, QHD_2K, FHD_1080, CUSTOM}

\* lines 81-88: handlePresetChange
HandlePresetChange(preset) ==
    /\ UserEvent
    /\ appSettings' =
         IF preset # CUSTOM
         THEN [appSettings EXCEPT !.preset = preset,
                                  !.width = RESOLUTIONS(preset).width,
                                  !.height = RESOLUTIONS(preset).height]
         ELSE [appSettings EXCEPT !.preset = preset]
    /\ UNCHANGED <<appFile, previewUrl, isProcessing, appResult, resultSource,
                   live, nextUrl, mounted>>
    /\ UNCHANGED vars

\* the numbers a user may type into the width and height inputs
TypedValues == {-5, 0, 100}

\* lines 264 and 275: Math.max(0, parseInt(e.target.value) || 0)
ClampInput(v) == IF v > 0 THEN v ELSE 0

\* lines 256-281: the width and height inputs, rendered for Custom only
SetCustomSize(w, h) ==
    /\ UserEvent
    /\ appSettings.preset = CUSTOM
    /\ appSettings' = [appSettings EXCEPT !.width = ClampInput(w),
                                          !.height = ClampInput(h)]
    /\ UNCHANGED <<appFile, previewUrl, isProcessing, appResult, resultSource,
                   live, nextUrl, mounted>>
    /\ UNCHANGED vars

\* lines 90-96: handleProcess up to the call of processImage with the file
\* and the settings of the render the click came from; the button is
\* disabled while isProcessing (line 371)
HandleProcess ==
    /\ UserEvent
    /\ ~isProcessing
    /\ appFile # <<>> /\ IsValid(appSettings)
    /\ nextUrl + 2 <= MaxUrls
    /\ isProcessing' = TRUE
    /\ ProcessImage(CoreFile(appFile[1]), appSettings)
    /\ UNCHANGED <<appFile, previewUrl, appSettings, appResult, resultSource,
                   live, nextUrl, mounted>>

\* the settled invocation leaves the service idle again
ServiceIdle ==
    /\ pc' = "idle"
    /\ file' = NoFile
    /\ settings' = DEFAULT_SETTINGS
    /\ ops' = <<>>
    /\ urls' = <<>>
    /\ result' = <<>>
    /\ error' = <<>>

\* the object URLs the settled invocation made, numbered as the page's next
InvocationUrls ==
    { [id |-> nextUrl + i, kind |-> urls[i]] : i \in 1 .. Len(urls) }

\* lines 96-97 and 101-102: processImage resolved, setResult(processed); an
\* unmounted component ignores the state updates
HandleProcessResolved ==
    /\ pc = "resolved"
    /\ live' = live \cup InvocationUrls
    /\ nextUrl' = nextUrl + Len(urls)
    /\ IF mounted
       THEN /\ appResult' = <<[result[1] EXCEPT !.url = nextUrl + @]>>
            /\ resultSource' = <<file>>
            /\ isProcessing' = FALSE
       ELSE UNCHANGED <<appResult, resultSource, isProcessing>>
    /\ ServiceIdle
    /\ UNCHANGED <<appFile, previewUrl, appSettings, mounted>>

\* lines 98-102: processImage rejected, the alert
HandleProcessRejected ==
    /\ pc = "rejected"
    /\ live' = live \cup InvocationUrls
    /\ nextUrl' = nextUrl + Len(urls)
    /\ isProcessing' = IF mounted THEN FALSE ELSE isProcessing
    /\ ServiceIdle
    /\ UNCHANGED <<appFile, previewUrl, appSettings, appResult, resultSource,
                   mounted>>

\* lines 38-42: the cleanup of the effect, which closes over the previewUrl
\* and the result of the render that created it
Cleanup(l, closedPreviewUrl, closedResult) ==
    RevokeIf(RevokeIf(l, closedPreviewUrl),
             IF closedResult = <<>> THEN <<>> ELSE <<closedResult[1].url>>)

\* lines 37-43: the component unmounts; the effect has no dependencies, so
\* its cleanup is the one of the first render, where previewUrl and result
\* are null
Unmount ==
    /\ mounted
    /\ ~ContinuationPending
    /\ mounted' = FALSE
    /\ live' = Cleanup(live, <<>>, <<>>)
    /\ UNCHANGED <<appFile, previewUrl, appSettings, isProcessing, appResult,
                   resultSource, nextUrl>>
    /\ UNCHANGED vars

\* the App, the service it calls and the browser's callbacks
AppNext ==
    \/ \E f \in AppFiles : HandleFile(f)
    \/ RemoveImage
    \/ \E preset \in OfferedPresets : HandlePresetChange(preset)
    \/ \E w, h \in TypedValues : SetCustomSize(w, h)
    \/ HandleProcess
    \/ BitmapDecoded /\ UNCHANGED appVars
    \/ BitmapFailed /\ UNCHANGED appVars
    \/ ImgOnload /\ UNCHANGED appVars
    \/ ImgOnerror /\ UNCHANGED appVars
    \/ ToBlobCallback /\ UNCHANGED appVars
    \/ HandleProcessResolved
    \/ HandleProcessRejected
    \/ Unmount

AppSpec == StartUp /\ [][AppNext]_allVars

---------------------------------------------------------------------------
(* Properties                                                              *)

\* renderToCanvas has run its synchronous part: the frame was prepared, the
\* image drawn and the encoder called
Rendered == ops # <<>>

\* the calls of a rendered invocation
BackgroundCall == ops[1]
DrawCall == ops[2]
EncodeCall == ops[3]

\* the target size the canvas was given
CanvasWidth == EncodeCall.width
CanvasHeight == EncodeCall.height

SourcePositive == file.width > 0 /\ file.height > 0

\* the source and the target have the same aspect ratio
SameRatio == file.width * CanvasHeight = file.height * CanvasWidth

(* C1: an invocation whose settings have the Custom preset with a width or *)
(* a height <= 0 makes no call on the canvas (no fill, no clear, no        *)
(* drawImage, no toBlob) and yields no result.                             *)
C1_InvalidCustomRejected ==
    (pc # "idle" /\ settings.preset = CUSTOM
        /\ (settings.width <= 0 \/ settings.height <= 0))
    => (ops = <<>> /\ result = <<>> /\ pc \notin {"encode", "resolved"})

\* the catalog of the specification's data model
C2_Catalog ==
    (UHD_4K :> <<3840, 2160>>) @@ (QHD_2K :> <<2560, 1440>>)
        @@ (FHD_1080 :> <<1920, 1080>>) @@ (HD_720 :> <<1280, 720>>)

(* C2: with a preset other than Custom, whatever settings.width and        *)
(* settings.height hold, the frame that is prepared and encoded, and the   *)
(* width and height of the result, are the preset's catalog dimensions.    *)
C2_PresetDimensionsWin ==
    (Rendered /\ settings.preset # CUSTOM)
    => LET want == C2_Catalog[settings.preset]
       IN  /\ BackgroundCall.w = want[1] /\ BackgroundCall.h = want[2]
           /\ CanvasWidth = want[1] /\ CanvasHeight = want[2]
           /\ result # <<>> =>
                result[1].width = want[1] /\ result[1].height = want[2]

C2_Witness ==
    /\ pc = "resolved"
    /\ settings.preset = QHD_2K
    /\ settings.width = -5 /\ settings.height = 100
    /\ result[1].width = 2560 /\ result[1].height = 1440

(* C3 as the specification states it: with Contain and a source of         *)
(* positive size, drawW <= targetW, drawH <= targetH and exactly one of    *)
(* drawW = targetW, drawH = targetH holds.                                 *)
C3_ContainExactlyOne ==
    (Rendered /\ settings.fitMode = CONTAIN /\ SourcePositive)
    => /\ Le(DrawCall.drawW, Num(CanvasWidth))
       /\ Le(DrawCall.drawH, Num(CanvasHeight))
       /\ (DrawCall.drawW = Num(CanvasWidth)) # (DrawCall.drawH = Num(CanvasHeight))

(* C3, amended: with Contain and a source of positive size,                *)
(* drawW <= targetW and drawH <= targetH, and at least one of              *)
(* drawW = targetW, drawH = targetH holds: exactly one when the aspect     *)
(* ratios of source and target differ, both when they are equal.           *)
C3_ContainFits ==
    (Rendered /\ settings.fitMode = CONTAIN /\ SourcePositive)
    => /\ Le(DrawCall.drawW, Num(CanvasWidth))
       /\ Le(DrawCall.drawH, Num(CanvasHeight))
       /\ DrawCall.drawW = Num(CanvasWidth) \/ DrawCall.drawH = Num(CanvasHeight)
       /\ (DrawCall.drawW = Num(CanvasWidth) /\ DrawCall.drawH = Num(CanvasHeight))
            <=> SameRatio

\* a 1080p frame contained in the 4K frame fills it in both directions
C3_Witness ==
    /\ Rendered
    /\ settings.fitMode = CONTAIN
    /\ file.width = 1920 /\ file.height = 1080
    /\ settings.preset = UHD_4K
    /\ DrawCall.drawW = Num(3840) /\ DrawCall.drawH = Num(2160)

(* C4 as the specification states it: with Cover and a source of positive  *)
(* size, drawW >= targetW, drawH >= targetH and exactly one of             *)
(* drawW = targetW, drawH = targetH holds.                                 *)
C4_CoverExactlyOne ==
    (Rendered /\ settings.fitMode = COVER /\ SourcePositive)
    => /\ Le(Num(CanvasWidth), DrawCall.drawW)
       /\ Le(Num(CanvasHeight), DrawCall.drawH)
       /\ (DrawCall.drawW = Num(CanvasWidth)) # (DrawCall.drawH = Num(CanvasHeight))

(* C4, amended: with Cover and a source of positive size,                  *)
(* drawW >= targetW and drawH >= targetH, and at least one of              *)
(* drawW = targetW, drawH = targetH holds: exactly one when the aspect     *)
(* ratios of source and target differ, both when they are equal.           *)
C4_CoverFills ==
    (Rendered /\ settings.fitMode = COVER /\ SourcePositive)
    => /\ Le(Num(CanvasWidth), DrawCall.drawW)
       /\ Le(Num(CanvasHeight), DrawCall.drawH)
       /\ DrawCall.drawW = Num(CanvasWidth) \/ DrawCall.drawH = Num(CanvasHeight)
       /\ (DrawCall.drawW = Num(CanvasWidth) /\ DrawCall.drawH = Num(CanvasHeight))
            <=> SameRatio

\* a square source covering a square custom frame of another size
C4_Witness ==
    /\ Rendered
    /\ settings.fitMode = COVER
    /\ file.width = 2 /\ file.height = 2
    /\ settings.preset = CUSTOM /\ settings.width = 100 /\ settings.height = 100
    /\ DrawCall.drawW = Num(100) /\ DrawCall.drawH = Num(100)

(* C5: with Contain or Cover and a source of positive size the placement   *)
(* keeps the source's aspect ratio: drawW * srcH = drawH * srcW.           *)
C5_AspectRatioPreserved ==
    (Rendered /\ settings.fitMode \in {CONTAIN, COVER} /\ SourcePositive)
    => Mul(DrawCall.drawW, Num(file.height)) = Mul(DrawCall.drawH, Num(file.width))

\* the specification's example: 4000x2000 covering 3840x2160 is drawn
\* 4320x2160 at (-240, 0)
C5_Witness ==
    /\ Rendered
    /\ settings.fitMode = COVER
    /\ file.width = 4000 /\ file.height = 2000
    /\ settings.preset = UHD_4K
    /\ DrawCall.drawW = Num(4320) /\ DrawCall.drawH = Num(2160)
    /\ DrawCall.drawX = Num(-240) /\ DrawCall.drawY = Num(0)

(* C6: with Stretch, for every source and target, the image is drawn at    *)
(* (0, 0, targetW, targetH).                                               *)
C6_StretchFillsFrame ==
    (Rendered /\ settings.fitMode = STRETCH)
    => /\ DrawCall.op = "drawImage"
       /\ DrawCall.drawX = Num(0) /\ DrawCall.drawY = Num(0)
       /\ DrawCall.drawW = Num(CanvasWidth) /\ DrawCall.drawH = Num(CanvasHeight)

\* a portrait source stretched over the 16:9 frame of a preset
C6_Witness ==
    /\ Rendered
    /\ settings.fitMode = STRETCH
    /\ file.width = 1 /\ file.height = 2
    /\ settings.preset = HD_720
    /\ DrawCall.drawW = Num(1280) /\ DrawCall.drawH = Num(720)

\* the effective background of the specification
C7_Effective ==
    IF settings.backgroundColor = "transparent" /\ settings.format = JPEG
    THEN "#000000"
    ELSE settings.backgroundColor

\* the whole frame is filled with `colour` before the image is drawn
C7_FilledBeforeDraw(colour) ==
    \E i, j \in 1 .. Len(ops) :
        /\ i < j
        /\ ops[i].op = "fillRect" /\ ops[i].fillStyle = colour
        /\ ops[i].x = 0 /\ ops[i].y = 0
        /\ ops[i].w = CanvasWidth /\ ops[i].h = CanvasHeight
        /\ ops[j].op = "drawImage"

(* C7: the effective background is backgroundColor, or opaque black for    *)
(* 'transparent' with JPEG; when it is not 'transparent' the whole frame   *)
(* is filled with it before the image is drawn; the frame is cleared       *)
(* without a fill only for 'transparent' with PNG or WEBP.                 *)
C7_EffectiveBackgroundFilled ==
    Rendered
    => /\ C7_Effective # "transparent" => C7_FilledBeforeDraw(C7_Effective)
       /\ (\A i \in 1 .. Len(ops) : ops[i].op # "fillRect")
            => (settings.backgroundColor = "transparent"
                  /\ settings.format \in {PNG, WEBP})

(* C8: the encoder is called with the settings' format and with a quality  *)
(* that is omitted for PNG and is settings.quality for JPEG and WEBP.      *)
C8_EncoderArguments ==
    Rendered
    => /\ EncodeCall.op = "toBlob"
       /\ \A i \in 1 .. Len(ops) : ops[i].op = "toBlob" => i = 3
       /\ EncodeCall.type = settings.format
       /\ settings.format = PNG => EncodeCall.quality = <<>>
       /\ settings.format \in {JPEG, WEBP} =>
            EncodeCall.quality = <<settings.quality>>

C8_Witness ==
    /\ pc = "resolved"
    /\ settings.format = PNG
    /\ settings.quality = 10
    /\ EncodeCall.quality = <<>>
    /\ result[1].blob.type = PNG

\* the index of the last '.' of str, 0 when it has none
C9_LastDot(str) ==
    IF \E i \in 1 .. Len(str) : str[i] = "."
    THEN CHOOSE i \in 1 .. Len(str) :
            /\ str[i] = "."
            /\ \A j \in (i + 1) .. Len(str) : str[j] # "."
    ELSE 0

\* str without its extension
C9_Stem(str) ==
    IF C9_LastDot(str) = 0 THEN str ELSE SubSeq(str, 1, C9_LastDot(str) - 1)

\* the preset labels with their whitespace removed
C9_Label ==
    (UHD_4K :> <<"4", "K", "U", "H", "D">>)
        @@ (QHD_2K :> <<"2", "K", "Q", "H", "D">>)
        @@ (FHD_1080 :> <<"1", "0", "8", "0", "p", "F", "H", "D">>)
        @@ (HD_720 :> <<"7", "2", "0", "p", "H", "D">>)
        @@ (CUSTOM :> <<"C", "u", "s", "t", "o", "m">>)

\* the canonical extensions
C9_Extension ==
    (JPEG :> <<"j", "p", "g">>) @@ (PNG :> <<"p", "n", "g">>)
        @@ (WEBP :> <<"w", "e", "b", "p">>)

(* C9: the filename of a result is the original name without its           *)
(* extension, '_', the target width, 'x', the target height, '_', the      *)
(* preset's label without whitespace, '.', and the format's extension.     *)
C9_FilenameDerived ==
    pc = "resolved"
    => result[1].filename =
         C9_Stem(file.name) \o <<"_">> \o NumberToString(result[1].width)
            \o <<"x">> \o NumberToString(result[1].height) \o <<"_">>
            \o C9_Label[settings.preset] \o <<".">> \o C9_Extension[settings.format]

\* the specification's example, photo_1920x1080_1080pFHD.jpg
C9_Witness ==
    /\ pc = "resolved"
    /\ file.name = <<"p", "h", "o", "t", "o", ".", "p", "n", "g">>
    /\ settings.preset = FHD_1080
    /\ settings.format = JPEG
    /\ result[1].filename =
         <<"p", "h", "o", "t", "o", "_", "1", "9", "2", "0", "x", "1", "0",
           "8", "0", "_", "1", "0", "8", "0", "p", "F", "H", "D", ".", "j",
           "p", "g">>

\* the encoder was called and called back with null
EncoderGaveNothing == pc = "rejected" /\ error = <<"Canvas to Blob failed">>

(* C10: when the encoder calls back with null the invocation is rejected:  *)
(* it has no result, hence no filename, and made no object URL of a blob;  *)
(* a rendered invocation that is rejected was rejected by the encoder.     *)
C10_NoResultWithoutBlob ==
    /\ EncoderGaveNothing =>
         /\ result = <<>>
         /\ \A i \in 1 .. Len(urls) : urls[i] # "blob"
    /\ (Rendered /\ pc = "rejected") => EncoderGaveNothing
    /\ pc = "resolved" => (result # <<>> /\ error = <<>>)

C10_Witness ==
    /\ EncoderGaveNothing
    /\ Rendered
    /\ urls = <<"source">>

(* C11: a resolved invocation, on the createImageBitmap path and on the    *)
(* Image-element path alike, has made exactly one object URL, the one of   *)
(* its result (the service revokes none, so every URL made is unreleased). *)
(* Stated for sources of positive size, the ones a decoder should accept.  *)
C11_OneLocatorPerSuccess ==
    (pc = "resolved" /\ SourcePositive)
    => /\ Len(urls) = 1
       /\ urls[result[1].url] = "blob"

(* C12: with a source whose natural width or height is not positive the    *)
(* invocation fails before the ratio srcW / srcH is computed: nothing is   *)
(* drawn, the encoder is not called and no result is produced.             *)
C12_NonPositiveSourceRejected ==
    (pc # "idle" /\ ~SourcePositive)
    => (~Rendered /\ pc \notin {"encode", "resolved"})

\* the unreleased object URLs of results
ResultUrls == { u \in live : u.kind = "blob" }

(* C13, first part: at most one object URL of a result is unreleased at    *)
(* any time (a result's URL is released before or when a newer result      *)
(* replaces it).                                                           *)
C13_AtMostOneResultUrl == Cardinality(ResultUrls) <= 1

(* C13, second part: no object URL of a result is unreleased once the      *)
(* component has unmounted and no invocation is in flight.                 *)
C13_NoneAfterUnmount == (~mounted /\ pc = "idle") => ResultUrls = {}

(* C13: in the App, after any sequence of file selections, removals and    *)
(* conversions, at most one object URL of a result is unreleased, and none *)
(* is after the component has unmounted.                                   *)
C13_ResultUrlsReleased == C13_AtMostOneResultUrl /\ C13_NoneAfterUnmount

(* C14, first part: while the App holds a result, a file is selected and   *)
(* the result was produced from that file.                                 *)
C14_ResultOfSelectedFile ==
    (mounted /\ appResult # <<>>)
    => (appFile # <<>> /\ resultSource = <<CoreFile(appFile[1])>>)

(* C14, second part, as a step: a conversion whose file is no longer the   *)
(* selected one does not install its result.                               *)
C14_StaleResultNotInstalled ==
    [][(pc = "resolved" /\ mounted
            /\ (appFile = <<>> \/ CoreFile(appFile[1]) # file))
        => appResult' = appResult]_allVars

=============================================================================
